---- MODULE Spec2Model ----
(***************************************************************************)
(* Model of the pinpoint-mcp server: the start-up script and the tool      *)
(* handlers of main.ts, the REST adapter (api/pinpoint.ts, here            *)
(* src/unnamed/part_001) and the PDF text extractor (utils, here           *)
(* src/unnamed/part_000).                                                  *)
(*                                                                         *)
(* Spec follows the server from start-up through one tool invocation at a  *)
(* time; SpecConcurrent runs several invocations side by side on a started *)
(* server.  An invocation runs                                             *)
(* synchronously up to its first await (an HTTP request), is resumed by    *)
(* the upstream response, and for parse-cv-from-url is then driven by the  *)
(* PDF parser's callbacks.  The upstream service and the PDF parser are    *)
(* the environment: their answers are chosen nondeterministically.         *)
(*                                                                         *)
(* JavaScript values: an optional value is None (undefined) or Some(v);    *)
(* a Record<string,string> is a function whose DOMAIN is its key set; a    *)
(* response body is None for the empty body "" and Some(document)          *)
(* otherwise; an error is [message, response] where response is            *)
(* None or Some([status, data]).                                           *)
(***************************************************************************)
EXTENDS Integers, Sequences, FiniteSets, TLC

\* ------------------------------------------------------------------ bounds
\* Largest page number and page size a caller supplies.
MaxPage == 2
MaxPerPage == 1
\* Largest number of callbacks the PDF parser delivers in one extraction.
MaxCallbacks == 4

\* Concurrent invocations: how many calls are in flight together, and how
\* many callbacks the parser delivers to each of them.
MaxCalls == 2
MaxConcurrentCallbacks == 2

\* ---------------------------------------------------------- JS value helpers
None == <<>>
Some(v) == <<v>>

\* Truthiness of an optional string / optional number, as `if (x)` tests it.
TruthyStr(o) == o # None /\ o[1] # ""
TruthyNum(o) == o # None /\ o[1] # 0

\* params[k] = v on a Record<string,string>.
Put(p, k, v) == [x \in (DOMAIN p) \cup {k} |-> IF x = k THEN v ELSE p[x]]
PutIf(c, p, k, v) == IF c THEN Put(p, k, v) ELSE p

\* String.prototype.includes
Contains(s, sub) ==
    \E i \in 1..(Len(s) - Len(sub) + 1) : SubSeq(s, i, i + Len(sub) - 1) = sub

\* Array.prototype.join(sep)
RECURSIVE Join(_, _)
Join(items, sep) ==
    IF items = <<>> THEN ""
    ELSE IF Len(items) = 1 THEN items[1]
    ELSE items[1] \o sep \o Join(Tail(items), sep)

\* ------------------------------------------------------- start-up (main.ts)
ToolNames == {"get-jobs", "get-job", "create-application", "get-applications",
              "get-application-by-id", "parse-cv-from-url"}
PromptNames == {"recruitment-summary", "application-screening",
                "job-performance-analysis", "candidate-pipeline-report",
                "quick-application-submit", "recruitment-insights"}

\* process.env values: unset, set to the empty string, or set.
EnvValues == {None, Some(""), Some("value")}

\* Faulty variant of MissingConfig: the subdomain guard is left out.
MissingOnlyKeyChecked(e) ==
    IF ~TruthyStr(e.PINPOINT_API_KEY) THEN Some("PINPOINT_API_KEY") ELSE None
\* The two `if (!X) throw` guards at the top of main.ts: the name of the
\* missing setting, or None when both are there.
MissingConfig(e) ==
    IF ~TruthyStr(e.PINPOINT_API_KEY) THEN Some("PINPOINT_API_KEY")
    ELSE IF ~TruthyStr(e.PINPOINT_SUBDOMAIN) THEN Some("PINPOINT_SUBDOMAIN")
    ELSE None

\* --------------------------------------------------- adapter (part_001)
\* getJobs: the query parameters built from the filter object.
getJobsParams(filters) ==
    LET p1 == PutIf(TruthyStr(filters.search), <<>>, "filter[search]", filters.search[1])
        p2 == PutIf(TruthyStr(filters.status), p1, "filter[status]", filters.status[1])
        p3 == PutIf(TruthyStr(filters.employment_type), p2,
                    "filter[employment_type]", filters.employment_type[1])
        p4 == PutIf(TruthyStr(filters.workplace_type), p3,
                    "filter[workplace_type]", filters.workplace_type[1])
        p5 == PutIf(TruthyNum(filters.page), p4, "page[number]", ToString(filters.page[1]))
        p6 == PutIf(TruthyNum(filters.per_page), p5, "page[size]",
                    ToString(filters.per_page[1]))
    IN  p6

\* Faulty variant of getApplicationsParams: stats[total] is not appended.
getApplicationsParamsNoStats(filters) ==
    LET p1 == PutIf(TruthyStr(filters.job_id), <<>>, "filter[job_id]", filters.job_id[1])
        p2 == PutIf(TruthyStr(filters.job_visibility), p1,
                    "filter[job_visibility]", filters.job_visibility[1])
        p3 == PutIf(TruthyStr(filters.stage_id), p2, "filter[stage_id]", filters.stage_id[1])
        p4 == PutIf(TruthyNum(filters.page), p3, "page", ToString(filters.page[1]))
        p5 == PutIf(TruthyNum(filters.per_page), p4, "per_page",
                    ToString(filters.per_page[1]))
        p6 == Put(p5, "extra_fields[applications]", "attachments")
    IN  p6
\* getApplications: the query parameters built from the filter object.
getApplicationsParams(filters) ==
    LET p1 == PutIf(TruthyStr(filters.job_id), <<>>, "filter[job_id]", filters.job_id[1])
        p2 == PutIf(TruthyStr(filters.job_visibility), p1,
                    "filter[job_visibility]", filters.job_visibility[1])
        p3 == PutIf(TruthyStr(filters.stage_id), p2, "filter[stage_id]", filters.stage_id[1])
        p4 == PutIf(TruthyNum(filters.page), p3, "page", ToString(filters.page[1]))
        p5 == PutIf(TruthyNum(filters.per_page), p4, "per_page",
                    ToString(filters.per_page[1]))
        p6 == Put(p5, "extra_fields[applications]", "attachments")
        p7 == Put(p6, "stats[total]", "count")
    IN  p7

\* Faulty variant of applicationData: first and last name are swapped.
applicationDataSwapped(application) ==
    [data |-> [type |-> "applications",
               attributes |-> [first_name |-> application.lastName,
                               last_name |-> application.firstName,
                               email |-> application.email],
               relationships |-> [job |-> [data |-> [type |-> "jobs",
                                                      id |-> application.jobId]]]]]
\* createApplication: the JSON:API document posted to /applications.
applicationData(application) ==
    [data |-> [type |-> "applications",
               attributes |-> [first_name |-> application.firstName,
                               last_name |-> application.lastName,
                               email |-> application.email],
               relationships |-> [job |-> [data |-> [type |-> "jobs",
                                                      id |-> application.jobId]]]]]

\* The HTTP request each adapter operation issues.
Request(method, path, params, body) ==
    [method |-> method, path |-> path, params |-> params, body |-> body]
getJobsRequest(filters) == Request("GET", "/jobs", Some(getJobsParams(filters)), None)
getJobByIdRequest(id) == Request("GET", "/jobs/" \o id, None, None)
createApplicationRequest(application) ==
    Request("POST", "/applications", None, Some(applicationData(application)))
getApplicationsRequest(filters) ==
    Request("GET", "/applications", Some(getApplicationsParams(filters)), None)
getApplicationByIdRequest(id) == Request("GET", "/applications/" \o id, None, None)

\* error.response?.data || error.message, the detail every adapter catch logs.
ErrorDetail(error) ==
    IF error.response # None /\ error.response[1].data # ""
    THEN error.response[1].data
    ELSE error.message

\* The label each adapter catch block logs before rethrowing.
AdapterLogLabel(op, arg) ==
    CASE op = "getJobs" -> "Error fetching jobs:"
      [] op = "getJobById" -> "Error fetching job " \o arg \o ":"
      [] op = "createApplication" -> "Error creating application:"
      [] op = "getApplications" -> "Error fetching applications:"
      [] op = "getApplicationById" -> "Error fetching application " \o arg \o ":"

\* Outcome of one adapter call on the upstream response: the body returned,
\* or the caught error rethrown unchanged.
AdapterOutcome(op, resp) ==
    IF resp.ok THEN [op |-> op, kind |-> "returned", value |-> resp.data]
    ELSE [op |-> op, kind |-> "threw", error |-> resp.error]

\* Faulty variant of AdapterEvents: the catch rethrows without logging.
AdapterEventsNoLog(op, arg, resp) ==
    IF resp.ok THEN << [type |-> "return", op |-> op] >>
    ELSE << [type |-> "throw", op |-> op] >>
\* What one adapter call appends to the trace when the response arrives:
\* on failure the console.error entry, then the rethrow.
AdapterEvents(op, arg, resp) ==
    IF resp.ok THEN << [type |-> "return", op |-> op] >>
    ELSE << [type |-> "log", label |-> AdapterLogLabel(op, arg),
             detail |-> ErrorDetail(resp.error)],
            [type |-> "throw", op |-> op] >>

\* ------------------------------------------------ upstream (environment)
\* Response documents.  EmptyObject is {}; the empty body "" is None.
EmptyObject == <<>>
JobDoc == [data |-> [id |-> "42", attributes |-> [title |-> "Engineer"]]]
JobsDoc == [data |-> << [id |-> "42", attributes |-> [title |-> "Engineer"]] >>]
AppDoc == [data |-> [id |-> "a1"]]
AppsDoc == [data |-> << [id |-> "a1"] >>, meta |-> [stats |-> [total |-> [count |-> 1]]]]
AppsDocNoMeta == [data |-> << >>]

Ok(body) == [ok |-> TRUE, data |-> body]
Fail(error) == [ok |-> FALSE, error |-> error]

AxiosError(message, response) == [message |-> message, response |-> response]
NotFoundError ==
    AxiosError("Request failed with status code 404",
               Some([status |-> 404, data |-> "{\"errors\":[{\"status\":\"404\"}]}"]))
ServerError ==
    AxiosError("Request failed with status code 500", Some([status |-> 500, data |-> ""]))
DnsError == AxiosError("getaddrinfo ENOTFOUND acme.pinpointhq.com", None)
TimeoutError == AxiosError("timeout of 1000ms exceeded", None)
Failures == {NotFoundError, ServerError, DnsError, TimeoutError}

\* The answers the upstream can give to each request.
Responses(op) ==
    {Fail(e) : e \in Failures} \cup
    CASE op = "getJobs" -> {Ok(None), Ok(Some(JobsDoc))}
      [] op = "getJobById" -> {Ok(None), Ok(Some(EmptyObject)), Ok(Some(JobDoc))}
      [] op = "createApplication" -> {Ok(None), Ok(Some(EmptyObject)), Ok(Some(AppDoc))}
      [] op = "getApplications" -> {Ok(None), Ok(Some(AppsDoc)), Ok(Some(AppsDocNoMeta))}
      [] op = "getApplicationById" -> {Ok(None), Ok(Some(EmptyObject)), Ok(Some(AppDoc))}
      [] op = "download" -> {Ok(Some("%PDF"))}

\* ------------------------------------------------- tool layer (main.ts)
\* The defaults of page and per_page in the get-jobs argument schema.
DefaultPage == 1
DefaultPerPage == 20
\* Faulty variant of GetJobsSchema: no defaults are applied.
GetJobsSchemaNoDefaults(raw) == raw
\* get-jobs argument schema: page and per_page default to 1 and 20.
GetJobsSchema(raw) ==
    [raw EXCEPT !.page = IF raw.page = None THEN Some(DefaultPage) ELSE raw.page,
                !.per_page = IF raw.per_page = None THEN Some(DefaultPerPage)
                             ELSE raw.per_page]

\* The response envelope {content: [{type: 'text', text}]} a handler returns,
\* and the outcome of a handler that lets an exception escape.
Returned(text) == [kind |-> "returned", text |-> text]
\* The envelope whose text is the value undefined: the property is absent
\* from the serialised response, {content: [{type: 'text'}]}.
ReturnedWithoutText == [kind |-> "returned"]
Threw(error) == [kind |-> "threw", error |-> error]

\* `${prefix}${error.message || 'Unknown error'}` of the handlers' catch blocks.
ErrorText(prefix, error) ==
    prefix \o (IF error.message # "" THEN error.message ELSE "Unknown error")

TypeError(prop) ==
    [message |-> "Cannot read properties of undefined (reading '" \o prop \o "')",
     response |-> None]

\* JSON.stringify(value, null, 2) on the bodies the upstream returns.
Stringify(body) ==
    CASE body = None -> "\"\""
      [] body = Some(EmptyObject) -> "{}"
      [] body = Some(JobDoc) ->
           "{\n  \"data\": {\n    \"id\": \"42\",\n    \"attributes\": {\n      \"title\": \"Engineer\"\n    }\n  }\n}"
      [] body = Some(JobsDoc) ->
           "{\n  \"data\": [\n    {\n      \"id\": \"42\",\n      \"attributes\": {\n        \"title\": \"Engineer\"\n      }\n    }\n  ]\n}"
      [] body = Some(AppDoc) -> "{\n  \"data\": {\n    \"id\": \"a1\"\n  }\n}"

\* JSON.stringify(response.data, null, 2) as a value: the value undefined
\* (None) when the body has no `data`, the JSON text otherwise.
JsonStringifyData(body) ==
    CASE body = None -> None
      [] body = Some(EmptyObject) -> None
      [] body = Some(AppDoc) -> Some("{\n  \"id\": \"a1\"\n}")
      [] body = Some(AppsDoc) -> Some("[\n  {\n    \"id\": \"a1\"\n  }\n]")
      [] body = Some(AppsDocNoMeta) -> Some("[]")

\* `${JSON.stringify(response.data, null, 2)}` inside a template literal:
\* the value undefined is interpolated as the text "undefined".
StringifyData(body) ==
    IF JsonStringifyData(body) = None THEN "undefined" ELSE JsonStringifyData(body)[1]

\* `${response.meta?.stats?.total?.count}`
TotalCountText(body) ==
    IF /\ body # None
       /\ "meta" \in DOMAIN body[1]
       /\ "stats" \in DOMAIN body[1].meta
       /\ "total" \in DOMAIN body[1].meta.stats
       /\ "count" \in DOMAIN body[1].meta.stats.total
    THEN ToString(body[1].meta.stats.total.count)
    ELSE "undefined"

\* body.data of a response body: undefined on "" and on {}.
DataOf(body) ==
    IF body # None /\ "data" \in DOMAIN body[1] THEN Some(body[1].data) ELSE None

\* create-application: the text returned when the job lookup gave a falsy body.
JobNotFoundText(jobId) == "Error: Job with ID " \o jobId \o " not found."

\* create-application: the success template; evaluating it throws a TypeError
\* when either response lacks `data` (caught by the handler's catch).
ApplicationCreatedResult(a, jobResponse, applicationResponse) ==
    IF DataOf(applicationResponse) = None
    THEN Returned(ErrorText("Error creating application: ", TypeError("id")))
    ELSE IF DataOf(jobResponse) = None
    THEN Returned(ErrorText("Error creating application: ", TypeError("attributes")))
    ELSE Returned("Application submitted successfully! Application ID: "
                  \o DataOf(applicationResponse)[1].id
                  \o "\n\nJob: " \o DataOf(jobResponse)[1].attributes.title
                  \o "\nApplicant: " \o a.firstName \o " " \o a.lastName
                  \o "\nEmail: " \o a.email)

\* get-jobs and get-job: no try/catch around the adapter call.
UncaughtResult(outcome) ==
    IF outcome.kind = "returned" THEN Returned(Stringify(outcome.value))
    ELSE Threw(outcome.error)

\* get-applications: try/catch around the adapter call.
GetApplicationsResult(outcome) ==
    IF outcome.kind = "returned"
    THEN Returned("Found " \o TotalCountText(outcome.value) \o " applications:\n\n"
                  \o StringifyData(outcome.value))
    ELSE Returned(ErrorText("Error fetching applications: ", outcome.error))

\* get-application-by-id: try/catch around the adapter call.  The text is
\* the bare JSON.stringify value, so a body without `data` leaves it undefined.
GetApplicationByIdResult(outcome) ==
    IF outcome.kind = "returned"
    THEN IF JsonStringifyData(outcome.value) = None THEN ReturnedWithoutText
         ELSE Returned(JsonStringifyData(outcome.value)[1])
    ELSE Returned(ErrorText("Error fetching application: ", outcome.error))

\* --------------------------------------------- PDF extractor (part_000)
PdfErrorSentinel == "Error extracting text from PDF"

\* Faulty variant of PdfFailure: the original message is not embedded.
PdfFailureNoMessage(error) ==
    [message |-> "Failed to process PDF from URL", response |-> None]
\* parsePdfFromUrl's catch: the new Error wrapping the original message.
PdfFailure(error) ==
    [message |-> "Failed to process PDF from URL: " \o error.message, response |-> None]

\* resolve(v) on the extraction promise: only the first settlement counts.
Resolve(p, v) == IF p = None THEN Some(v) ELSE p

\* Faulty variant of ParserCallback: an error resolves with the joined text.
ParserCallbackJoinOnError(err, item, items, p) ==
    IF err THEN [textItems |-> items, promise |-> Resolve(p, Join(items, " "))]
    ELSE IF item = None THEN [textItems |-> items, promise |-> Resolve(p, Join(items, " "))]
    ELSE IF TruthyStr(item[1].text)
    THEN [textItems |-> Append(items, item[1].text[1]), promise |-> p]
    ELSE [textItems |-> items, promise |-> p]
\* Faulty variant of ParserCallback: a fragment is put in front of the others.
ParserCallbackPrepend(err, item, items, p) ==
    IF err THEN [textItems |-> items, promise |-> Resolve(p, PdfErrorSentinel)]
    ELSE IF item = None THEN [textItems |-> items, promise |-> Resolve(p, Join(items, " "))]
    ELSE IF TruthyStr(item[1].text)
    THEN [textItems |-> << item[1].text[1] >> \o items, promise |-> p]
    ELSE [textItems |-> items, promise |-> p]
\* The parser callback (err, item) => {...}: the new [textItems, promise].
\* err is a BOOLEAN; item is None (null item) or Some([text |-> Opt string]).
ParserCallback(err, item, items, p) ==
    IF err THEN [textItems |-> items, promise |-> Resolve(p, PdfErrorSentinel)]
    ELSE IF item = None THEN [textItems |-> items, promise |-> Resolve(p, Join(items, " "))]
    ELSE IF TruthyStr(item[1].text)
    THEN [textItems |-> Append(items, item[1].text[1]), promise |-> p]
    ELSE [textItems |-> items, promise |-> p]

\* ------------------------------------------------------ caller inputs
OptPage == {None} \cup {Some(n) : n \in 1..MaxPage}
OptPerPage == {None} \cup {Some(n) : n \in 1..MaxPerPage}
\* get-jobs arguments the schema accepts (page, per_page positive when given).
GetJobsArgs ==
    [search : {None, Some(""), Some("dev")},
     status : {None, Some("open")},
     employment_type : {None, Some("full_time")},
     workplace_type : {None, Some("remote")},
     page : OptPage,
     per_page : OptPerPage]
\* get-applications arguments the schema accepts (any string, any number).
GetApplicationsArgs ==
    [jobId : {None, Some(""), Some("42")},
     jobVisibility : {None, Some("external,internal")},
     stageId : {None, Some("7")},
     page : OptPage \cup {Some(0)},
     perPage : OptPerPage \cup {Some(0)}]
Ids == {"42", "999"}
CreateApplicationArgs ==
    [jobId : Ids, firstName : {"Ada", "Grace"}, lastName : {"Lovelace"},
     email : {"ada@example.com"}]
Urls == {"https://example.com/cv.pdf"}
\* What the PDF parser hands to the callback as an item.
ParserItems == {[text |-> Some("Ada")], [text |-> Some("CV")], [text |-> None]}

\* ------------------------------------------------------------- state
VARIABLES
    env,           \* process.env: PINPOINT_API_KEY, PINPOINT_SUBDOMAIN
    pc,            \* position of the start-up script of main.ts
    registered,    \* names of the tools and prompts registered on the server
    connected,     \* server.connect(transport) has been called
    tool,          \* name of the tool or prompt of the current invocation
    args,          \* its arguments, as the caller supplied them
    stage,         \* "idle", "awaitHttp", "parsing" or "done"
    pendingOp,     \* the operation whose HTTP request is in flight
    jobResponse,   \* create-application: the job lookup's body
    events,        \* trace of the invocation: requests, logs, returns, throws
    outcomes,      \* outcomes of the adapter / extractor calls it made
    result,        \* what the handler returned or threw; None while it runs
    textItems,     \* extractTextFromPdf: the collected fragments
    promise,       \* extractTextFromPdf: the promise, None while pending
    parserErrored, \* the parser has reported an error in this extraction
    parserEnded,   \* the parser has delivered the terminal null item
    callbacks      \* number of parser callbacks delivered in this extraction

\* Concurrent invocations (one record per call, and the objects they allocate).
VARIABLES
    calls,         \* call id -> the state of that invocation
    paramsHeap,    \* cell -> a `params` object built by getApplications
    itemsHeap      \* cell -> a `textItems` array filled by extractTextFromPdf

startup == <<env, pc, registered, connected>>
concurrent == <<calls, paramsHeap, itemsHeap>>
invocation == <<tool, args, stage, pendingOp, jobResponse, events, outcomes, result>>
extraction == <<textItems, promise, parserErrored, parserEnded, callbacks>>
vars == <<env, pc, registered, connected, tool, args, stage, pendingOp, jobResponse,
          events, outcomes, result, textItems, promise, parserErrored, parserEnded,
          callbacks, calls, paramsHeap, itemsHeap>>

CallIds == 1..MaxCalls
\* A call that has not been dispatched yet.
NewCall ==
    [tool |-> "", args |-> None, stage |-> "new", request |-> None, result |-> None,
     parserStarted |-> FALSE, promise |-> None, ended |-> FALSE, errored |-> FALSE,
     callbacks |-> 0, delivered |-> <<>>]
\* No call dispatched, no object allocated.
NoCalls ==
    /\ calls = [c \in CallIds |-> NewCall]
    /\ paramsHeap = [c \in CallIds |-> <<>>]
    /\ itemsHeap = [c \in CallIds |-> <<>>]

Init ==
    /\ env \in [PINPOINT_API_KEY : EnvValues, PINPOINT_SUBDOMAIN : EnvValues]
    /\ pc = "load"
    /\ registered = {}
    /\ connected = FALSE
    /\ tool = ""
    /\ args = None
    /\ stage = "idle"
    /\ pendingOp = None
    /\ jobResponse = None
    /\ events = <<>>
    /\ outcomes = <<>>
    /\ result = None
    /\ textItems = <<>>
    /\ promise = None
    /\ parserErrored = FALSE
    /\ parserEnded = FALSE
    /\ callbacks = 0
    /\ NoCalls

\* ------------------------------------------------------ start-up script
\* main.ts 16-25: throw when a required setting is missing.
CheckConfig ==
    /\ pc = "load"
    /\ pc' = IF MissingConfig(env) # None THEN "crashed" ELSE "configured"
    /\ UNCHANGED <<env, registered, connected, invocation, extraction, concurrent>>

\* main.ts 27-482: create the server, register the six tools and six prompts.
RegisterAll ==
    /\ pc = "configured"
    /\ registered' = ToolNames \cup PromptNames
    /\ pc' = "registered"
    /\ UNCHANGED <<env, connected, invocation, extraction, concurrent>>

\* main.ts 484-486: connect the server to the stdio transport.
Connect ==
    /\ pc = "registered"
    /\ connected' = TRUE
    /\ pc' = "serving"
    /\ UNCHANGED <<env, registered, invocation, extraction, concurrent>>

\* ---------------------------------------------------- tool invocations
RequestEvent(op, req) == [type |-> "request", op |-> op, request |-> req]
\* The upstream's answer to the request in flight, as it arrives.
ResponseEvent(op, resp) == [type |-> "response", op |-> op, response |-> resp]

\* The server dispatches a call to a registered handler, which runs up to
\* its first await: the adapter builds and issues its request.
StartCall(name, a, op, req) ==
    /\ connected
    /\ name \in registered
    /\ stage \in {"idle", "done"}
    /\ tool' = name
    /\ args' = a
    /\ stage' = "awaitHttp"
    /\ pendingOp' = Some(op)
    /\ jobResponse' = None
    /\ events' = << RequestEvent(op, req) >>
    /\ outcomes' = <<>>
    /\ result' = None
    /\ textItems' = <<>>
    /\ promise' = None
    /\ parserErrored' = FALSE
    /\ parserEnded' = FALSE
    /\ callbacks' = 0
    /\ UNCHANGED <<startup, concurrent>>

\* The handler completes with result r after the adapter call settled.
FinishCall(op, arg, resp, r) ==
    /\ events' = events \o << ResponseEvent(op, resp) >> \o AdapterEvents(op, arg, resp)
    /\ outcomes' = Append(outcomes, AdapterOutcome(op, resp))
    /\ result' = Some(r)
    /\ stage' = "done"
    /\ pendingOp' = None
    /\ UNCHANGED <<startup, tool, args, jobResponse, extraction, concurrent>>

\* A prompt is a template expander: no I/O, it returns its message at once.
GetPrompt(name) ==
    /\ connected
    /\ name \in registered
    /\ stage \in {"idle", "done"}
    /\ tool' = name
    /\ args' = None
    /\ stage' = "done"
    /\ pendingOp' = None
    /\ jobResponse' = None
    /\ events' = <<>>
    /\ outcomes' = <<>>
    /\ result' = Some([kind |-> "messages", prompt |-> name])
    /\ textItems' = <<>>
    /\ promise' = None
    /\ parserErrored' = FALSE
    /\ parserEnded' = FALSE
    /\ callbacks' = 0
    /\ UNCHANGED <<startup, concurrent>>

\* get-jobs (main.ts 32-69)
\* The filter object the handler passes to getJobs.
GetJobsFilters(a) ==
    [search |-> a.search, status |-> a.status, employment_type |-> a.employment_type,
     workplace_type |-> a.workplace_type, page |-> a.page, per_page |-> a.per_page]
GetJobsInvoke(raw) ==
    StartCall("get-jobs", raw, "getJobs",
              getJobsRequest(GetJobsFilters(GetJobsSchema(raw))))
GetJobsResume(resp) ==
    /\ stage = "awaitHttp" /\ tool = "get-jobs"
    /\ FinishCall("getJobs", "", resp, UncaughtResult(AdapterOutcome("getJobs", resp)))

\* get-job (main.ts 71-90)
GetJobInvoke(id) ==
    StartCall("get-job", [id |-> id], "getJobById", getJobByIdRequest(id))
GetJobResume(resp) ==
    /\ stage = "awaitHttp" /\ tool = "get-job"
    /\ FinishCall("getJobById", args.id, resp,
                  UncaughtResult(AdapterOutcome("getJobById", resp)))

\* create-application (main.ts 92-144)
CreateApplicationInvoke(a) ==
    StartCall("create-application", a, "getJobById", getJobByIdRequest(a.jobId))
\* The job lookup settled: catch, "not found", or go on to createApplication.
CreateApplicationJobFetched(resp) ==
    /\ stage = "awaitHttp" /\ tool = "create-application"
    /\ pendingOp = Some("getJobById")
    /\ IF ~resp.ok
       THEN FinishCall("getJobById", args.jobId, resp,
                       Returned(ErrorText("Error creating application: ", resp.error)))
       ELSE IF resp.data = None
       THEN FinishCall("getJobById", args.jobId, resp,
                       Returned(JobNotFoundText(args.jobId)))
       ELSE /\ jobResponse' = resp.data
            /\ events' = events \o << ResponseEvent("getJobById", resp) >>
                         \o AdapterEvents("getJobById", args.jobId, resp)
                         \o << RequestEvent("createApplication",
                                            createApplicationRequest(args)) >>
            /\ outcomes' = Append(outcomes, AdapterOutcome("getJobById", resp))
            /\ pendingOp' = Some("createApplication")
            /\ UNCHANGED <<startup, tool, args, stage, result, extraction,
                           concurrent>>
CreateApplicationCreated(resp) ==
    /\ stage = "awaitHttp" /\ tool = "create-application"
    /\ pendingOp = Some("createApplication")
    /\ FinishCall("createApplication", "", resp,
                  IF resp.ok
                  THEN ApplicationCreatedResult(args, jobResponse, resp.data)
                  ELSE Returned(ErrorText("Error creating application: ", resp.error)))

\* get-applications (main.ts 146-185)
\* The filter object the handler passes to getApplications.
GetApplicationsFilters(a) ==
    [job_id |-> a.jobId, job_visibility |-> a.jobVisibility, stage_id |-> a.stageId,
     page |-> a.page, per_page |-> a.perPage]
GetApplicationsInvoke(a) ==
    StartCall("get-applications", a, "getApplications",
              getApplicationsRequest(GetApplicationsFilters(a)))
GetApplicationsResume(resp) ==
    /\ stage = "awaitHttp" /\ tool = "get-applications"
    /\ FinishCall("getApplications", "", resp,
                  GetApplicationsResult(AdapterOutcome("getApplications", resp)))

\* get-application-by-id (main.ts 187-216)
GetApplicationByIdInvoke(id) ==
    StartCall("get-application-by-id", [id |-> id], "getApplicationById",
              getApplicationByIdRequest(id))
GetApplicationByIdResume(resp) ==
    /\ stage = "awaitHttp" /\ tool = "get-application-by-id"
    /\ FinishCall("getApplicationById", args.id, resp,
                  GetApplicationByIdResult(AdapterOutcome("getApplicationById", resp)))

\* parse-cv-from-url (main.ts 451-482) and parsePdfFromUrl (part_000 9-27)
ParseCvInvoke(url) ==
    StartCall("parse-cv-from-url", [url |-> url], "download",
              Request("GET", url, None, None))

\* What parsePdfFromUrl does when axios.get settles: on failure its catch logs
\* the message and throws the wrapping error, which the handler's catch turns
\* into text; on success extractTextFromPdf hands the buffer to the parser.
ParseCvDownloaded(resp) ==
    /\ stage = "awaitHttp" /\ tool = "parse-cv-from-url"
    /\ pendingOp' = None
    /\ IF ~resp.ok
       THEN /\ events' = events \o
                 << ResponseEvent("download", resp),
                    [type |-> "log", label |-> "Error processing PDF:",
                     detail |-> resp.error.message],
                    [type |-> "throw", op |-> "parsePdfFromUrl"] >>
            /\ outcomes' = outcomes \o
                 << [op |-> "download", kind |-> "threw", error |-> resp.error],
                    [op |-> "parsePdfFromUrl", kind |-> "threw",
                     error |-> PdfFailure(resp.error)] >>
            /\ result' = Some(Returned(ErrorText("Error parsing CV from URL: ",
                                                 PdfFailure(resp.error))))
            /\ stage' = "done"
       ELSE /\ events' = events \o << ResponseEvent("download", resp), [type |-> "parse"] >>
            /\ outcomes' = Append(outcomes,
                 [op |-> "download", kind |-> "returned", value |-> resp.data])
            /\ stage' = "parsing"
            /\ UNCHANGED result
    /\ UNCHANGED <<startup, tool, args, jobResponse, extraction, concurrent>>

\* extractTextFromPdf has handed the buffer to the parser.
ParserStarted == \E i \in 1..Len(events) : events[i].type = "parse"

\* The parser may call back until it has delivered the terminal null item;
\* it keeps calling back whether or not the promise is settled already.
ParserMayCall ==
    /\ tool = "parse-cv-from-url"
    /\ ParserStarted
    /\ ~parserEnded
    /\ callbacks < MaxCallbacks

\* One callback of the parser, as it is delivered.
CallbackEvent(err, item) == [type |-> "callback", err |-> err, item |-> item]

\* The error the parser hands to the callback when it cannot read the file.
ParserErrorDetail == "Invalid XRef stream header"

\* What one callback leaves in the trace: the callback itself and, when it
\* carries an error, the console.error entry written before the resolve.
CallbackEvents(err, item) ==
    IF err
    THEN << CallbackEvent(err, item),
            [type |-> "log", label |-> "PDF parsing error:", detail |-> ParserErrorDetail] >>
    ELSE << CallbackEvent(err, item) >>

Deliver(err, item) ==
    LET next == ParserCallback(err, item, textItems, promise)
    IN  /\ textItems' = next.textItems
        /\ promise' = next.promise
        /\ callbacks' = callbacks + 1
        /\ events' = events \o CallbackEvents(err, item)
        /\ UNCHANGED <<startup, tool, args, stage, pendingOp, jobResponse, outcomes,
                       result, concurrent>>

\* callback(null, item)
ParserItem(item) ==
    /\ ParserMayCall
    /\ Deliver(FALSE, Some(item))
    /\ UNCHANGED <<parserErrored, parserEnded>>
\* callback(null, null): end of file
ParserEnd ==
    /\ ParserMayCall
    /\ Deliver(FALSE, None)
    /\ parserEnded' = TRUE
    /\ UNCHANGED parserErrored
\* callback(err)
ParserError ==
    /\ ParserMayCall
    /\ Deliver(TRUE, None)
    /\ parserErrored' = TRUE
    /\ UNCHANGED parserEnded

\* The awaits on the settled promise resume: parsePdfFromUrl returns the
\* text and the handler wraps it.
ParseCvResume ==
    /\ stage = "parsing" /\ tool = "parse-cv-from-url"
    /\ promise # None
    /\ outcomes' = outcomes \o
         << [op |-> "extractTextFromPdf", kind |-> "returned", value |-> promise[1]],
            [op |-> "parsePdfFromUrl", kind |-> "returned", value |-> promise[1]] >>
    /\ events' = Append(events, [type |-> "return", op |-> "parsePdfFromUrl"])
    /\ result' = Some(Returned(promise[1]))
    /\ stage' = "done"
    /\ UNCHANGED <<startup, tool, args, pendingOp, jobResponse, extraction,
                   concurrent>>

\* ------------------------------------------------------- specification
Next ==
    \/ CheckConfig
    \/ RegisterAll
    \/ Connect
    \/ \E name \in PromptNames : GetPrompt(name)
    \/ \E raw \in GetJobsArgs : GetJobsInvoke(raw)
    \/ \E resp \in Responses("getJobs") : GetJobsResume(resp)
    \/ \E id \in Ids : GetJobInvoke(id)
    \/ \E resp \in Responses("getJobById") : GetJobResume(resp)
    \/ \E a \in CreateApplicationArgs : CreateApplicationInvoke(a)
    \/ \E resp \in Responses("getJobById") : CreateApplicationJobFetched(resp)
    \/ \E resp \in Responses("createApplication") : CreateApplicationCreated(resp)
    \/ \E a \in GetApplicationsArgs : GetApplicationsInvoke(a)
    \/ \E resp \in Responses("getApplications") : GetApplicationsResume(resp)
    \/ \E id \in Ids : GetApplicationByIdInvoke(id)
    \/ \E resp \in Responses("getApplicationById") : GetApplicationByIdResume(resp)
    \/ \E url \in Urls : ParseCvInvoke(url)
    \/ \E resp \in Responses("download") : ParseCvDownloaded(resp)
    \/ \E item \in ParserItems : ParserItem(item)
    \/ ParserEnd
    \/ ParserError
    \/ ParseCvResume

Spec == Init /\ [][Next]_vars

\* ------------------------------------------------ concurrent invocations
\* Several tool invocations in flight on a started server.  Each runs its
\* synchronous stretches atomically and may be overtaken by the others at its
\* suspension points: the HTTP request and the parser callbacks.  The objects
\* a call allocates (`const params = {}`, `const textItems = []`) live in the
\* heaps; a call reaches its own through ParamsCell / ItemsCell.

\* Faulty variants: one object at module level, shared by every call.
SharedParamsCell(c) == 1
SharedItemsCell(c) == 1
\* `const params` inside getApplications: a fresh object per call.
ParamsCell(c) == c
\* `const textItems` inside the promise executor: a fresh array per call.
ItemsCell(c) == c

\* The assignments of getApplications applied to the object `base`.
WriteParams(base, filters) ==
    LET new == getApplicationsParams(filters)
    IN  [k \in (DOMAIN base) \cup (DOMAIN new) |->
            IF k \in DOMAIN new THEN new[k] ELSE base[k]]

\* Arguments and answers used for the concurrent get-applications calls.
ConcurrentApplicationsArgs ==
    {a \in GetApplicationsArgs :
        /\ a.jobVisibility = None /\ a.perPage = None
        /\ a.jobId \in {None, Some("42")}
        /\ a.stageId = None
        /\ a.page \in {None, Some(1)}}
ConcurrentResponses(op) ==
    CASE op = "getApplications" -> {Fail(NotFoundError), Ok(Some(AppsDoc))}
      [] op = "download" -> {Fail(DnsError), Ok(Some("%PDF"))}
\* The items the parser finds in the document of call c.
DocumentItems(c) == {[text |-> Some("cv" \o ToString(c))], [text |-> None]}

InitConcurrent ==
    /\ env = [PINPOINT_API_KEY |-> Some("value"), PINPOINT_SUBDOMAIN |-> Some("value")]
    /\ pc = "serving"
    /\ registered = ToolNames \cup PromptNames
    /\ connected = TRUE
    /\ tool = ""
    /\ args = None
    /\ stage = "idle"
    /\ pendingOp = None
    /\ jobResponse = None
    /\ events = <<>>
    /\ outcomes = <<>>
    /\ result = None
    /\ textItems = <<>>
    /\ promise = None
    /\ parserErrored = FALSE
    /\ parserEnded = FALSE
    /\ callbacks = 0
    /\ NoCalls

\* get-applications, up to `await api.get('/applications', { params })`.
CallGetApplications(c, a) ==
    /\ connected /\ "get-applications" \in registered
    /\ calls[c].stage = "new"
    /\ LET cell == ParamsCell(c)
           params == WriteParams(paramsHeap[cell], GetApplicationsFilters(a))
       IN  /\ paramsHeap' = [paramsHeap EXCEPT ![cell] = params]
           /\ calls' = [calls EXCEPT ![c] =
                 [@ EXCEPT !.tool = "get-applications", !.args = a,
                           !.stage = "awaitHttp",
                           !.request = Some(Request("GET", "/applications",
                                                    Some(params), None))]]
    /\ UNCHANGED <<startup, invocation, extraction, itemsHeap>>

\* get-applications, from the response to the handler's return.
CallGetApplicationsResume(c, resp) ==
    /\ calls[c].tool = "get-applications" /\ calls[c].stage = "awaitHttp"
    /\ calls' = [calls EXCEPT ![c] =
          [@ EXCEPT !.stage = "done",
                    !.result = Some(GetApplicationsResult(
                                      AdapterOutcome("getApplications", resp)))]]
    /\ UNCHANGED <<startup, invocation, extraction, paramsHeap, itemsHeap>>

\* parse-cv-from-url, up to `await axios.get(url, ...)`.
CallParseCv(c, url) ==
    /\ connected /\ "parse-cv-from-url" \in registered
    /\ calls[c].stage = "new"
    /\ calls' = [calls EXCEPT ![c] =
          [@ EXCEPT !.tool = "parse-cv-from-url", !.args = [url |-> url],
                    !.stage = "awaitHttp",
                    !.request = Some(Request("GET", url, None, None))]]
    /\ UNCHANGED <<startup, invocation, extraction, paramsHeap, itemsHeap>>

\* parse-cv-from-url, the download settled: catch and error text, or hand the
\* buffer to the parser.
CallParseCvDownloaded(c, resp) ==
    /\ calls[c].tool = "parse-cv-from-url" /\ calls[c].stage = "awaitHttp"
    /\ calls' = [calls EXCEPT ![c] =
          IF resp.ok THEN [@ EXCEPT !.stage = "parsing", !.parserStarted = TRUE]
          ELSE [@ EXCEPT !.stage = "done",
                         !.result = Some(Returned(ErrorText(
                                      "Error parsing CV from URL: ",
                                      PdfFailure(resp.error))))]]
    /\ UNCHANGED <<startup, invocation, extraction, paramsHeap, itemsHeap>>

\* The parser of call c may call back (see ParserMayCall).
CallParserMayCall(c) ==
    /\ calls[c].tool = "parse-cv-from-url"
    /\ calls[c].parserStarted
    /\ ~calls[c].ended
    /\ calls[c].callbacks < MaxConcurrentCallbacks

\* One callback of the parser of call c, run on the array of call c.
CallDeliver(c, err, item, ended) ==
    LET cell == ItemsCell(c)
        next == ParserCallback(err, item, itemsHeap[cell], calls[c].promise)
        text == IF ~err /\ item # None /\ TruthyStr(item[1].text)
                THEN << item[1].text[1] >> ELSE <<>>
    IN  /\ itemsHeap' = [itemsHeap EXCEPT ![cell] = next.textItems]
        /\ calls' = [calls EXCEPT ![c] =
              [@ EXCEPT !.promise = next.promise,
                        !.callbacks = @ + 1,
                        !.ended = ended,
                        !.errored = @ \/ err,
                        !.delivered = @ \o text]]
        /\ UNCHANGED <<startup, invocation, extraction, paramsHeap>>

CallParserItem(c, item) == CallParserMayCall(c) /\ CallDeliver(c, FALSE, Some(item), FALSE)
CallParserEnd(c) == CallParserMayCall(c) /\ CallDeliver(c, FALSE, None, TRUE)
CallParserError(c) == CallParserMayCall(c) /\ CallDeliver(c, TRUE, None, FALSE)

\* parse-cv-from-url, the awaits on the settled promise resume.
CallParseCvResume(c) ==
    /\ calls[c].tool = "parse-cv-from-url" /\ calls[c].stage = "parsing"
    /\ calls[c].promise # None
    /\ calls' = [calls EXCEPT ![c] =
          [@ EXCEPT !.stage = "done", !.result = Some(Returned(calls[c].promise[1]))]]
    /\ UNCHANGED <<startup, invocation, extraction, paramsHeap, itemsHeap>>

NextConcurrent ==
    \E c \in CallIds :
        \/ \E a \in ConcurrentApplicationsArgs : CallGetApplications(c, a)
        \/ \E resp \in ConcurrentResponses("getApplications") :
              CallGetApplicationsResume(c, resp)
        \/ \E url \in Urls : CallParseCv(c, url)
        \/ \E resp \in ConcurrentResponses("download") : CallParseCvDownloaded(c, resp)
        \/ \E item \in DocumentItems(c) : CallParserItem(c, item)
        \/ CallParserEnd(c)
        \/ CallParserError(c)
        \/ CallParseCvResume(c)

SpecConcurrent == InitConcurrent /\ [][NextConcurrent]_vars

\* ============================================================ properties
\* Helpers of the properties: the trace entries of one kind for one operation,
\* and the outcomes of one operation.
EventsOf(type, op) == SelectSeq(events, LAMBDA e : e.type = type /\ e.op = op)
OutcomesOf(op) == SelectSeq(outcomes, LAMBDA o : o.op = op)
Finished == stage = "done" /\ result # None

\* ---- C1
\* The job lookup of a create-application call found no job: it failed with
\* status 404, or it returned an empty body.
JobLookupFoundNothing ==
    /\ tool = "create-application"
    /\ OutcomesOf("getJobById") # <<>>
    /\ LET o == OutcomesOf("getJobById")[1]
       IN  \/ o.kind = "returned" /\ o.value = None
           \/ /\ o.kind = "threw"
              /\ o.error.response # None
              /\ o.error.response[1].status = 404

\* C1: a create-application call whose jobId names no existing job (lookup
\* answered 404 or an empty body) returns a text containing "not found" and
\* issues no POST /applications.
C1_MissingJobReportedNotFound ==
    (Finished /\ JobLookupFoundNothing) =>
        /\ result[1].kind = "returned"
        /\ Contains(result[1].text, "not found")
        /\ EventsOf("request", "createApplication") = <<>>

\* ---- C2
\* C2: every tool handler completes by returning a text response, whatever the
\* adapter or extractor did; no exception leaves a handler.
C2_HandlersNeverThrow ==
    (Finished /\ tool \in ToolNames) => result[1].kind = "returned"

\* ---- C3
\* The bracket-syntax key the spec gives each filter field.
BracketKeyOf(f) ==
    CASE f = "page" -> "page[number]"
      [] f = "per_page" -> "page[size]"
      [] OTHER -> "filter[" \o f \o "]"
FixedApplicationKeys == {"extra_fields[applications]", "stats[total]"}
\* A field is present when it carries a value the code itself counts as one:
\* a non-empty string or a non-zero number.  (Read strictly, a field set to ""
\* or 0 is present too, and the code drops it as well.)
PresentFields(filters) ==
    {f \in DOMAIN filters :
        /\ filters[f] # None
        /\ filters[f][1] # (IF f \in {"page", "per_page"} THEN 0 ELSE "")}

\* C3: the caller-controlled keys of the query sent by getJobs and
\* getApplications are exactly the bracket-syntax keys (filter[<name>],
\* page[number], page[size]) of the fields present in the filter object.
C3_ExactlyThePresentKeys ==
    /\ (tool = "get-jobs" /\ events # <<>>) =>
          DOMAIN events[1].request.params[1] =
              {BracketKeyOf(f) : f \in PresentFields(GetJobsFilters(GetJobsSchema(args)))}
    /\ (tool = "get-applications" /\ events # <<>>) =>
          (DOMAIN events[1].request.params[1]) \ FixedApplicationKeys =
              {BracketKeyOf(f) : f \in PresentFields(GetApplicationsFilters(args))}

\* ---- C4
\* C4: every GET /applications issued by getApplications carries
\* extra_fields[applications]=attachments and stats[total]=count, whatever the
\* filter object holds.
C4_FixedParamsAlwaysSent ==
    \A i \in 1..Len(events) :
        (events[i].type = "request" /\ events[i].op = "getApplications") =>
            /\ events[i].request.method = "GET"
            /\ events[i].request.path = "/applications"
            /\ events[i].request.params # None
            /\ LET p == events[i].request.params[1]
               IN  /\ FixedApplicationKeys \subseteq DOMAIN p
                   /\ p["extra_fields[applications]"] = "attachments"
                   /\ p["stats[total]"] = "count"
\* A get-applications request was built from a filter object with every field
\* given, and one from the empty filter object.
C4_Witness ==
    /\ tool = "get-applications"
    /\ args.jobId = Some("42") /\ args.jobVisibility # None /\ args.stageId # None
    /\ args.page = Some(MaxPage) /\ args.perPage = Some(MaxPerPage)
    /\ EventsOf("request", "getApplications") # <<>>

\* ---- C5
\* C5: the GET /jobs request of a get-jobs call carries page[number]=1 when
\* page was omitted and page[size]=20 when per_page was omitted, and the
\* supplied values otherwise.
C5_GetJobsPageDefaults ==
    (tool = "get-jobs" /\ events # <<>>) =>
        /\ events[1].request.path = "/jobs"
        /\ events[1].request.params # None
        /\ LET p == events[1].request.params[1]
           IN  /\ {"page[number]", "page[size]"} \subseteq DOMAIN p
               /\ p["page[number]"] =
                     (IF args.page = None THEN "1" ELSE ToString(args.page[1]))
               /\ p["page[size]"] =
                     (IF args.per_page = None THEN "20" ELSE ToString(args.per_page[1]))
\* A get-jobs call that omitted both page and per_page has issued its request.
C5_Witness ==
    /\ tool = "get-jobs"
    /\ args.page = None /\ args.per_page = None
    /\ EventsOf("request", "getJobs") # <<>>

\* ---- C6
\* C6: once the parser has reported an error, the extraction promise is
\* resolved with exactly "Error extracting text from PDF" and stays so through
\* later callbacks; parsePdfFromUrl then returns that string (never throws)
\* and the handler returns it as its text.
C6_ParserErrorResolvesSentinel ==
    parserErrored =>
        /\ promise = Some("Error extracting text from PDF")
        /\ \A i \in 1..Len(outcomes) :
              outcomes[i].op \in {"extractTextFromPdf", "parsePdfFromUrl"} =>
                  /\ outcomes[i].kind = "returned"
                  /\ outcomes[i].value = "Error extracting text from PDF"
        /\ Finished => result[1] = Returned("Error extracting text from PDF")
\* The parser reported an error after fragments had been collected, went on to
\* deliver the end of file, and the call has completed.
C6_Witness ==
    /\ parserErrored /\ parserEnded
    /\ textItems # <<>>
    /\ Finished
    /\ OutcomesOf("parsePdfFromUrl") # <<>>

\* ---- C7
\* C7: when the download fails, parsePdfFromUrl throws a new error whose
\* message contains the original failure's message, and the PDF parser is
\* never invoked.
C7_DownloadFailureWrapped ==
    \A i \in 1..Len(outcomes) :
        (outcomes[i].op = "download" /\ outcomes[i].kind = "threw") =>
            /\ OutcomesOf("parsePdfFromUrl") # <<>>
            /\ LET o == OutcomesOf("parsePdfFromUrl")[1]
               IN  /\ o.kind = "threw"
                   /\ o.error # outcomes[i].error
                   /\ Contains(o.error.message, outcomes[i].error.message)
            /\ ~ParserStarted
            /\ callbacks = 0
            /\ promise = None
\* A download failed on a DNS error and the call has completed.
C7_Witness ==
    /\ tool = "parse-cv-from-url"
    /\ Finished
    /\ OutcomesOf("download") # <<>>
    /\ OutcomesOf("download")[1].kind = "threw"
    /\ OutcomesOf("download")[1].error = DnsError

\* ---- C8
\* C8: while the API key or the subdomain is missing (unset or empty), the
\* server is never connected to its transport and no tool or prompt is served.
C8_NoStartWithoutConfig ==
    (~TruthyStr(env.PINPOINT_API_KEY) \/ ~TruthyStr(env.PINPOINT_SUBDOMAIN)) =>
        /\ ~connected
        /\ pc \in {"load", "crashed"}
        /\ registered = {}
        /\ tool = "" /\ stage = "idle" /\ result = None /\ events = <<>>
\* The start-up script stopped on a missing subdomain with the API key set.
C8_Witness ==
    /\ pc = "crashed"
    /\ TruthyStr(env.PINPOINT_API_KEY)
    /\ env.PINPOINT_SUBDOMAIN = None

\* ---- C9
\* What the claim says is surfaced for an error: its response body when it
\* carries one, its message otherwise.
Surfaced(error) ==
    IF error.response # None /\ error.response[1].data # ""
    THEN error.response[1].data
    ELSE error.message

\* C9: when an adapter operation fails, the text the tool layer renders
\* carries the upstream response body if the failure has one, and the
\* transport error message otherwise.
C9_UpstreamBodySurfaced ==
    (/\ Finished
     /\ tool \in {"create-application", "get-applications", "get-application-by-id"}
     /\ outcomes[Len(outcomes)].kind = "threw") =>
        /\ result[1].kind = "returned"
        /\ Contains(result[1].text, Surfaced(outcomes[Len(outcomes)].error))

\* ---- C10
\* C10: createApplication sends exactly one POST /applications whose body is
\* the JSON:API document built from its input, each value unchanged, and
\* returns the response body it receives.
C10_CreateApplicationRequest ==
    (tool = "create-application" /\ EventsOf("request", "createApplication") # <<>>) =>
        /\ Len(EventsOf("request", "createApplication")) = 1
        /\ Len(SelectSeq(events, LAMBDA e : e.type = "request"
                                            /\ e.request.method = "POST")) = 1
        /\ LET r == EventsOf("request", "createApplication")[1].request
           IN  /\ r.method = "POST"
               /\ r.path = "/applications"
               /\ r.body =
                    Some([data |->
                           [type |-> "applications",
                            attributes |-> [first_name |-> args.firstName,
                                            last_name |-> args.lastName,
                                            email |-> args.email],
                            relationships |->
                              [job |-> [data |-> [type |-> "jobs",
                                                  id |-> args.jobId]]]]])
        /\ \A i \in 1..Len(EventsOf("response", "createApplication")) :
              LET resp == EventsOf("response", "createApplication")[i].response
              IN  resp.ok =>
                    /\ OutcomesOf("createApplication") # <<>>
                    /\ OutcomesOf("createApplication")[1].kind = "returned"
                    /\ OutcomesOf("createApplication")[1].value = resp.data
\* createApplication posted Ada Lovelace's application for job 42 and the
\* upstream answered with the created resource.
C10_Witness ==
    /\ tool = "create-application"
    /\ args.jobId = "42" /\ args.firstName = "Ada"
    /\ Finished
    /\ OutcomesOf("createApplication") # <<>>
    /\ OutcomesOf("createApplication")[1].kind = "returned"
    /\ OutcomesOf("createApplication")[1].value = Some(AppDoc)

\* ---- C11
\* The text fragments the parser has delivered in this extraction, in callback
\* order: the texts of the callbacks that carried an item with a text.
RECURSIVE FragmentsIn(_)
FragmentsIn(trace) ==
    IF trace = <<>> THEN <<>>
    ELSE LET e == trace[Len(trace)]
             before == FragmentsIn(SubSeq(trace, 1, Len(trace) - 1))
         IN  IF /\ e.type = "callback" /\ ~e.err /\ e.item # None
                /\ e.item[1].text # None /\ e.item[1].text[1] # ""
             THEN Append(before, e.item[1].text[1])
             ELSE before
\* Each fragment followed by one space.
RECURSIVE EachFollowedBySpace(_)
EachFollowedBySpace(fs) ==
    IF fs = <<>> THEN "" ELSE fs[1] \o " " \o EachFollowedBySpace(Tail(fs))
\* The fragments with one space between neighbours and none after the last.
RECURSIVE SpaceSeparated(_)
SpaceSeparated(fs) ==
    IF fs = <<>> THEN ""
    ELSE IF Len(fs) = 1 THEN fs[1]
    ELSE SpaceSeparated(SubSeq(fs, 1, Len(fs) - 1)) \o " " \o fs[Len(fs)]

EndedWithoutError == parserEnded /\ ~parserErrored

\* C11 as stated: when the parser reaches the end of the stream without error,
\* the extraction resolves with every delivered fragment, in callback order,
\* each followed by one space.
C11_EachFragmentFollowedBySpace ==
    EndedWithoutError => promise = Some(EachFollowedBySpace(FragmentsIn(events)))

\* C11 as amended: when the parser reaches the end of the stream without
\* error, the extraction resolves with every delivered fragment, in callback
\* order, with one space between neighbouring fragments and none after the
\* last; items without text contribute nothing.  parsePdfFromUrl and the
\* handler pass that string on unchanged.
C11_FragmentsJoinedBySpaces ==
    EndedWithoutError =>
        /\ promise = Some(SpaceSeparated(FragmentsIn(events)))
        /\ \A i \in 1..Len(outcomes) :
              outcomes[i].op \in {"extractTextFromPdf", "parsePdfFromUrl"} =>
                  /\ outcomes[i].kind = "returned"
                  /\ outcomes[i].value = SpaceSeparated(FragmentsIn(events))
        /\ Finished => result[1] = Returned(SpaceSeparated(FragmentsIn(events)))
\* The parser delivered two different fragments and an item without text,
\* then the end of the stream, and the call has completed.
C11_Witness ==
    /\ EndedWithoutError
    /\ Finished
    /\ FragmentsIn(events) = <<"Ada", "CV">>
    /\ \E i \in 1..Len(events) :
          /\ events[i].type = "callback"
          /\ events[i].item = Some([text |-> None])

\* ---- C12
AdapterOps == {"getJobs", "getJobById", "createApplication", "getApplications",
               "getApplicationById"}
\* A response that makes the awaited api call of an adapter operation reject.
FailedAdapterResponse(e) ==
    e.type = "response" /\ e.op \in AdapterOps /\ ~e.response.ok

\* C12: every adapter operation issues one HTTP request per invocation; when
\* the request fails the operation logs the failure (label and
\* body-or-message) and then rethrows, the log directly before the rethrow,
\* and no further request follows the failure.
C12_OneRequestLogThenRethrow ==
    /\ \A op \in AdapterOps :
          /\ Len(EventsOf("request", op)) <= 1
          /\ Len(EventsOf("response", op)) <= Len(EventsOf("request", op))
          /\ Len(OutcomesOf(op)) = Len(EventsOf("response", op))
    /\ \A i \in 1..Len(events) :
          /\ FailedAdapterResponse(events[i]) =>
                /\ i + 2 = Len(events)
                /\ events[i + 1].type = "log"
                /\ events[i + 1].detail = Surfaced(events[i].response.error)
                /\ events[i + 2] = [type |-> "throw", op |-> events[i].op]
                /\ \A j \in 1..Len(events) : events[j].type = "request" => j < i
                /\ OutcomesOf(events[i].op) =
                      << [op |-> events[i].op, kind |-> "threw",
                          error |-> events[i].response.error] >>
          /\ (events[i].type = "throw" /\ events[i].op \in AdapterOps) =>
                /\ i > 2
                /\ events[i - 1].type = "log"
                /\ FailedAdapterResponse(events[i - 2])
\* A create-application call whose job lookup succeeded and whose POST failed:
\* two adapter operations ran, one request each, the second logged and rethrew.
C12_Witness ==
    /\ tool = "create-application"
    /\ Finished
    /\ Len(EventsOf("request", "getJobById")) = 1
    /\ Len(EventsOf("request", "createApplication")) = 1
    /\ OutcomesOf("createApplication") # <<>>
    /\ OutcomesOf("createApplication")[1].kind = "threw"
    /\ events[Len(events)] = [type |-> "throw", op |-> "createApplication"]

\* ---- C13
\* C13: under every interleaving of concurrent invocations, each call's
\* request carries exactly the query parameters its own arguments determine,
\* and each extraction collects and resolves with exactly the fragments its
\* own parser delivered; nothing of another call shows up in either.
C13_CallsAreIsolated ==
    \A c \in CallIds :
        /\ (calls[c].tool = "get-applications" /\ calls[c].request # None) =>
              /\ calls[c].request[1].params =
                    Some(getApplicationsParams(GetApplicationsFilters(calls[c].args)))
              /\ \A k \in DOMAIN calls[c].request[1].params[1] :
                    \/ k \in FixedApplicationKeys
                    \/ k = "filter[job_id]" /\ calls[c].args.jobId # None
                    \/ k = "page" /\ calls[c].args.page # None
        /\ calls[c].tool = "parse-cv-from-url" =>
              /\ calls[c].parserStarted =>
                    itemsHeap[ItemsCell(c)] = calls[c].delivered
              /\ (calls[c].ended /\ ~calls[c].errored) =>
                    calls[c].promise = Some(SpaceSeparated(calls[c].delivered))
              /\ (calls[c].stage = "done" /\ calls[c].parserStarted) =>
                    /\ calls[c].result = Some(Returned(calls[c].promise[1]))
                    /\ calls[c].errored \/
                          calls[c].result[1].text = SpaceSeparated(calls[c].delivered)
\* Two extractions were in flight together; each collected a fragment of its
\* own document, reached the end of its stream and completed.
C13_Witness ==
    /\ \A c \in {1, 2} :
          /\ calls[c].tool = "parse-cv-from-url"
          /\ calls[c].stage = "done"
          /\ calls[c].ended /\ ~calls[c].errored
          /\ calls[c].delivered = << "cv" \o ToString(c) >>

====
